---- MODULE Spec2Model ----
(***************************************************************************)
(* go-jp-rss: the crawl-and-sync engine.                                   *)
(*                                                                         *)
(* The repository holds two generations of the run pipeline:               *)
(*   - generate(url)    (src/src/main.ts): the cursor is read by           *)
(*     readLastUrl and written by saveLastUrl, both guarded by IGNORE_LAST *)
(*   - generate(medium) (main.ts of the multi-media generation,            *)
(*     src/unnamed/part_007): the cursor is read by                        *)
(*     loadMediaConfigurations and written by generate itself.             *)
(* Both share the crawl loop, shouldContinueFetching, the cursor cut and   *)
(* the item cap.  The variable entry says which generation is deployed.    *)
(*                                                                         *)
(* Strings are sequences of one-character strings, so that trim, the       *)
(* JavaScript truthiness of "" and date parsing are computed, not assumed. *)
(* Time is counted in days.                                                *)
(***************************************************************************)
EXTENDS Integers, Sequences, FiniteSets, TLC

\* ------------------------------------------------------------------ bounds
NumPages   == 2     \* page URLs of the upstream source: 1..NumPages
MaxPageLen == 2     \* items on one page
MaxFetches == 41    \* pages fetched in one run (caps a crawl that never ends)
MaxRuns    == 2     \* successive invocations
NumEntries == 3     \* entries of the media directory
TickMs     == 1000  \* milliseconds the clock advances in one step
MaxTicks   == 15    \* clock steps followed during one call of fetchHtml
StartDay   == 10    \* the day before the first invocation
MaxMatches == 2     \* elements the next-page rule matches on one page
MaxValues  == 2     \* values interpolated into one css template

\* ------------------------------------------------- program constants
MAX_ITEMS == 40
WEEK_DAYS == 7
DEFAULT_FETCH_TIMEOUT == 10000

\* JavaScript null / a file that does not exist (no string is equal to it)
NULL == <<"null">>
\* the time value of an Invalid Date
NaN == -1
\* no page: getNextPageUrl returned null
NoPage == 0
\* the process has not exited
NotExited == -1

\* --------------------------------------------------------------- strings
IsSpace(c) == c \in {" ", "\n"}

RECURSIVE TrimStart(_)
TrimStart(s) ==
  IF s # <<>> /\ IsSpace(Head(s)) THEN TrimStart(Tail(s)) ELSE s

RECURSIVE TrimEnd(_)
TrimEnd(s) ==
  IF s # <<>> /\ IsSpace(s[Len(s)]) THEN TrimEnd(SubSeq(s, 1, Len(s) - 1)) ELSE s

\* String.prototype.trim
Trim(s) == TrimEnd(TrimStart(s))

\* variant: only null is falsy
Truthy_NotNull(s) == s # NULL

\* truthiness of a string | null value: null and "" are falsy
Truthy(s) == s # NULL /\ s # <<>>

Digits == <<"0", "1", "2", "3", "4", "5", "6", "7", "8", "9">>

IsDigit(c) == \E d \in 1..10 : Digits[d] = c

DigitVal(c) == (CHOOSE d \in 1..10 : Digits[d] = c) - 1

RECURSIVE DigitsVal(_)
DigitsVal(s) ==
  IF s = <<>> THEN 0
  ELSE 10 * DigitsVal(SubSeq(s, 1, Len(s) - 1)) + DigitVal(s[Len(s)])

\* new Date(str): the day the text denotes, NaN when it does not parse
ParseDate(s) ==
  IF s # <<>> /\ \A i \in 1..Len(s) : IsDigit(s[i]) THEN DigitsVal(s) ELSE NaN

RECURSIVE ToDigits(_)
ToDigits(n) ==
  IF n < 10 THEN <<Digits[n + 1]>>
  ELSE ToDigits(n \div 10) \o <<Digits[(n % 10) + 1]>>

\* Date.prototype.toUTCString
ToUTCString(d) == IF d = NaN THEN <<"Invalid Date">> ELSE <<"U">> \o ToDigits(d)

\* itemDate < oneWeekAgo: a comparison with an Invalid Date is false
DateLess(d, w) == d # NaN /\ d < w

\* ------------------------------------------------------ upstream source
\* the item nodes the upstream source can list: the href of the link element
\* and the datetime of the date element, NULL when the element or the
\* attribute is missing
Nodes ==
  { [href |-> <<"a">>,      datetime |-> <<"9">>],        \* fresh
    [href |-> NULL,         datetime |-> NULL],           \* no link, no date
    [href |-> <<"c", " ">>, datetime |-> <<"0", "2">>] }  \* padded href, older than a week

Injective(s) == \A i, j \in DOMAIN s : i # j => s[i] # s[j]

\* the node lists one page can show: each entry at most once on a page
PageNodes ==
  UNION { { s \in [1..n -> Nodes] : Injective(s) } : n \in 0..MaxPageLen }

\* where the next link of page p can lead: nowhere, on to the following page,
\* or back to the entry page
NextOf(p) == {NoPage, 1} \cup (IF p < NumPages THEN {p + 1} ELSE {})

\* the pages URL p can serve: item nodes and the page the next link leads to
Pages(p) == [known : {TRUE}, nodes : PageNodes, next : NextOf(p)]

UnknownPage == [known |-> FALSE, nodes |-> <<>>, next |-> NoPage]

\* what the LAST file can hold before the first invocation
InitialLast == { NULL, <<"a", "\n">> }

\* what the environment variable IGNORE_LAST can be (NULL: not set)
EnvValues == { NULL, <<"0">>, <<"1">> }

VARIABLES
  entry,          \* "url": generate(url) is deployed; "medium": generate(medium)
  envIgnoreLast,  \* process.env.IGNORE_LAST
  LAST,           \* content of the LAST file, NULL when absent
  FETCHED_AT,     \* content of the FETCHED_AT file (a day), NaN when absent
  feed,           \* the feed file
  site,           \* upstream: page URL -> page, fixed once a page was served
  now,            \* current day
  run,            \* invocations started so far
  pc,             \* "idle", "loaded", "loop", "page", "filter", "done", "failed"
  medium,         \* the Medium built by loadMediaConfigurations
  lastUrl,        \* generate: lastUrl
  currentUrl,     \* generate: currentUrl
  allItems,       \* generate: allItems
  oneWeekAgo,     \* generate: oneWeekAgo
  fetches,        \* pages fetched in this run
  stopReason,     \* why the crawl loop ended
  crawled,        \* allItems when the crawl loop ended
  pre,            \* the persisted state when the run started
  prevItems,      \* the surviving items of the previous run
  fetched,        \* the page URLs fetchHtml was called with in this run
  error,          \* the error generate rejected with, "none" when it did not
  readErr,        \* how the read of the LAST file of this run ended
  http,           \* one call of fetchHtml: timer, response and clock
  batch,          \* main of the multi-media generation: the media and the loop
  exit,           \* the exit status of the process, NotExited while it runs
  settings,       \* the MediaSettings of the source
  pure            \* a function applied by itself: its arguments and result

vars == << entry, envIgnoreLast, LAST, FETCHED_AT, feed, site, now, run, pc,
           medium, lastUrl, currentUrl, allItems, oneWeekAgo, fetches,
           stopReason, crawled, pre, prevItems, fetched, error, readErr,
           http, batch, exit, settings, pure >>

persisted == << LAST, FETCHED_AT, feed >>
runVars   == << lastUrl, currentUrl, allItems, oneWeekAgo, fetches,
                stopReason, crawled, fetched >>
\* the state of the parts of the program a single-source run does not touch
aside     == << http, batch, settings, pure >>

NoFeed == [exists |-> FALSE, items |-> <<>>]
NoMedium == [last |-> NULL, fetchedAt |-> NaN]
\* no call of fetchHtml is under way
NoCall == [phase |-> "idle", timeout |-> 0, timer |-> FALSE, elapsed |-> 0,
           error |-> "none"]
\* main of the multi-media generation has not started
NoBatch == [phase |-> "idle", entries |-> <<>>, media |-> <<>>, i |-> 0,
            calls |-> <<>>, results |-> <<>>, records |-> <<>>]
\* no function is applied by itself
NoApplication == [fn |-> "none", args |-> <<>>, result |-> <<>>, applied |-> FALSE]
\* settings with a declarative next-page rule
PagedSettings == [nextPageSelector |-> "css"]
\* settings without fetch.nextPageSelector
SinglePageSettings == [nextPageSelector |-> "none"]

\* variant: the override taken for any value that is set
IGNORE_LAST_AnyValue == envIgnoreLast # NULL

\* export const IGNORE_LAST = process.env.IGNORE_LAST === "1"
IGNORE_LAST == envIgnoreLast = <<"1">>

InitWith(mediaSettings, application) ==
  /\ settings = mediaSettings
  /\ exit = NotExited
  /\ pure = application
  /\ entry \in {"url", "medium"}
  /\ envIgnoreLast \in EnvValues
  /\ LAST \in InitialLast
  /\ FETCHED_AT = NaN
  /\ feed = NoFeed
  /\ site = [p \in 1..NumPages |-> UnknownPage]
  /\ now = StartDay
  /\ run = 0
  /\ pc = "idle"
  /\ medium = NoMedium
  /\ lastUrl = NULL
  /\ currentUrl = NoPage
  /\ allItems = <<>>
  /\ oneWeekAgo = 0
  /\ fetches = 0
  /\ stopReason = "none"
  /\ crawled = <<>>
  /\ pre = [LAST |-> NULL, FETCHED_AT |-> NaN, feed |-> NoFeed]
  /\ prevItems = <<>>
  /\ fetched = <<>>
  /\ error = "none"
  /\ readErr = "none"
  /\ http = NoCall
  /\ batch = NoBatch

Init == InitWith(PagedSettings, NoApplication)

\* ------------------------------------------------------------ extraction
\* x ?? ""
OrEmpty(x) == IF x = NULL THEN <<>> ELSE x

\* element?.textContent?.trim() ?? ""
TextOrEmpty(x) == IF x = NULL THEN <<>> ELSE Trim(x)

\* the item of one node.  The crawl follows the link and the date only; a
\* node that is given with the text of its title element yields the title
\* as well
ItemOf(n) ==
  IF "title" \in DOMAIN n
  THEN [title   |-> TextOrEmpty(n.title),
        link    |-> OrEmpty(n.href),
        pubDate |-> OrEmpty(n.datetime)]
  ELSE [link    |-> OrEmpty(n.href),
        pubDate |-> OrEmpty(n.datetime)]

\* the nodes with a link, a date and (where given) a title element
Complete(nodes) ==
  SelectSeq(nodes, LAMBDA n : /\ n.href # NULL
                              /\ n.datetime # NULL
                              /\ "title" \in DOMAIN n => n.title # NULL)

\* variant: a node that lacks one of the elements yields no item
parseNewsItems_SkipIncomplete(html) ==
  [i \in 1..Len(Complete(html.nodes)) |-> ItemOf(Complete(html.nodes)[i])]

\* parseNewsItems with declarative rules: one item per node, in order
parseNewsItems(html) ==
  [i \in 1..Len(html.nodes) |-> ItemOf(html.nodes[i])]

\* variant: the next link is followed whether or not the settings have a
\* next-page rule
getNextPageUrl_IgnoreRule(html) == html.next

\* getNextPageUrl: NoPage without settings.fetch.nextPageSelector, else the
\* page the next link leads to, NoPage when there is none
getNextPageUrl(html) ==
  IF settings.nextPageSelector = "none" THEN NoPage ELSE html.next

\* ------------------------------------------------------------ crawl loop
\* variant: a page without items does not end the loop
NoItems_Never(items) == FALSE

\* items.length === 0
NoItems(items) == Len(items) = 0

\* items.some((item) => item.link === lastUrl)
SomeLink(items, url) == \E i \in 1..Len(items) : items[i].link = url

\* variant: an item older than a week at any position ends the loop
StopReason_AnyAged(items, last, nextPageUrl, weekAgo) ==
  IF nextPageUrl = NoPage THEN "nonext"
  ELSE IF Truthy(last) /\ SomeLink(items, last) THEN "cursor"
  ELSE IF ~Truthy(last) /\ Len(items) >= MAX_ITEMS THEN "cap"
  ELSE IF \E i \in 1..Len(items) :
            /\ Truthy(items[i].pubDate)
            /\ DateLess(ParseDate(items[i].pubDate), weekAgo) THEN "age"
  ELSE "continue"

\* variant: the age of the last item is tested before the next-page URL
StopReason_AgeFirst(items, last, nextPageUrl, weekAgo) ==
  IF /\ Len(items) > 0
     /\ Truthy(items[Len(items)].pubDate)
     /\ DateLess(ParseDate(items[Len(items)].pubDate), weekAgo) THEN "age"
  ELSE IF nextPageUrl = NoPage THEN "nonext"
  ELSE IF Truthy(last) /\ SomeLink(items, last) THEN "cursor"
  ELSE IF ~Truthy(last) /\ Len(items) >= MAX_ITEMS THEN "cap"
  ELSE "continue"

\* variant: the cap ends the loop only above MAX_ITEMS items
StopReason_CapAbove(items, last, nextPageUrl, weekAgo) ==
  IF nextPageUrl = NoPage THEN "nonext"
  ELSE IF Truthy(last) /\ SomeLink(items, last) THEN "cursor"
  ELSE IF ~Truthy(last) /\ Len(items) > MAX_ITEMS THEN "cap"
  ELSE IF /\ Len(items) > 0
          /\ Truthy(items[Len(items)].pubDate)
          /\ DateLess(ParseDate(items[Len(items)].pubDate), weekAgo) THEN "age"
  ELSE "continue"

\* the first failing test of shouldContinueFetching, "continue" when none fails
StopReason(items, last, nextPageUrl, weekAgo) ==
  IF nextPageUrl = NoPage THEN "nonext"
  ELSE IF Truthy(last) /\ SomeLink(items, last) THEN "cursor"
  ELSE IF ~Truthy(last) /\ Len(items) >= MAX_ITEMS THEN "cap"
  ELSE IF /\ Len(items) > 0
          /\ Truthy(items[Len(items)].pubDate)
          /\ DateLess(ParseDate(items[Len(items)].pubDate), weekAgo) THEN "age"
  ELSE "continue"

\* variant: the item cap does not end the loop
shouldContinueFetching_NoCap(items, last, nextPageUrl, weekAgo) ==
  StopReason(items, last, nextPageUrl, weekAgo) \in {"continue", "cap"}

\* variant: the cursor among the items does not end the loop
shouldContinueFetching_NoCursorStop(items, last, nextPageUrl, weekAgo) ==
  StopReason(items, last, nextPageUrl, weekAgo) \in {"continue", "cursor"}

shouldContinueFetching(items, last, nextPageUrl, weekAgo) ==
  StopReason(items, last, nextPageUrl, weekAgo) = "continue"

\* allItems.findIndex((item) => item.link === lastUrl), counted from 1;
\* 0 stands for -1
FindIndex(items, url) ==
  IF SomeLink(items, url)
  THEN CHOOSE i \in 1..Len(items) :
         /\ items[i].link = url
         /\ \A j \in 1..(i - 1) : items[j].link # url
  ELSE 0

\* variant: the cut keeps the cursor item
CursorCut_KeepCursor(items, last) ==
  IF Truthy(last) /\ Len(items) > 0
  THEN LET lastUrlIndex == FindIndex(items, last)
       IN  IF lastUrlIndex # 0 THEN SubSeq(items, 1, lastUrlIndex) ELSE items
  ELSE items

\* variant: no cut when the cursor is the very first item
CursorCut_NotFirst(items, last) ==
  IF Truthy(last) /\ Len(items) > 0
  THEN LET lastUrlIndex == FindIndex(items, last)
       IN  IF lastUrlIndex > 1 THEN SubSeq(items, 1, lastUrlIndex - 1) ELSE items
  ELSE items

\* variant: the slice is taken without the test of findIndex's -1
CursorCut_Unguarded(items, last) ==
  IF Truthy(last) /\ Len(items) > 0
  THEN LET lastUrlIndex == FindIndex(items, last)
       IN  IF lastUrlIndex # 0 THEN SubSeq(items, 1, lastUrlIndex - 1)
           ELSE SubSeq(items, 1, Len(items) - 1)
  ELSE items

\* filter out already processed items
CursorCut(items, last) ==
  IF Truthy(last) /\ Len(items) > 0
  THEN LET lastUrlIndex == FindIndex(items, last)
       IN  IF lastUrlIndex # 0 THEN SubSeq(items, 1, lastUrlIndex - 1) ELSE items
  ELSE items

\* variant: no limit
CapItems_NoLimit(items) == items

\* variant: the last MAX_ITEMS are kept
CapItems_Tail(items) ==
  IF Len(items) > MAX_ITEMS
  THEN SubSeq(items, Len(items) - MAX_ITEMS + 1, Len(items))
  ELSE items

\* limit to MAX_ITEMS
CapItems(items) ==
  IF Len(items) > MAX_ITEMS THEN SubSeq(items, 1, MAX_ITEMS) ELSE items

\* ------------------------------------------------------------------ feed
formatRssDate(dateStr) == ToUTCString(ParseDate(dateStr))

generateRss(items) ==
  [i \in 1..Len(items) |->
     [link |-> items[i].link, pubDate |-> formatRssDate(items[i].pubDate)]]

\* variant: the items of the run are put before those already in the file
FeedAfter_Prepend(items, old) ==
  IF Len(items) > 0
  THEN [exists |-> TRUE, items |-> generateRss(items) \o old.items]
  ELSE old

\* what a finished run leaves in the feed file
FeedAfter(items, old) ==
  IF Len(items) > 0 THEN [exists |-> TRUE, items |-> generateRss(items)] ELSE old

\* ---------------------------------------------------------- cursor store
\* fs.readFile of the LAST file without an I/O fault: the file is there or
\* it is not
ReadCode(file) == IF file = NULL THEN "ENOENT" ELSE "ok"

\* variant: the LAST file is never read
readLastUrl_Never(file) == NULL

\* readLastUrl: null under IGNORE_LAST or when LAST does not exist
readLastUrl(file) ==
  IF IGNORE_LAST THEN NULL
  ELSE IF file = NULL THEN NULL
  ELSE Trim(file)

\* saveLastUrl: the LAST file after the call
saveLastUrl(url, file) == IF IGNORE_LAST THEN file ELSE url

\* generate(url): the LAST file after the run
LastAfterUrl(items, file) ==
  IF Len(items) > 0 THEN saveLastUrl(items[1].link, file) ELSE file

\* loadMediaConfigurations: the last of the Medium
MediumLast(file) == IF file = NULL THEN NULL ELSE Trim(file)

\* variant: the link of the oldest surviving item is saved
LastAfter_Oldest(items, file) ==
  IF Len(items) > 0 THEN items[Len(items)].link ELSE file

\* generate(medium): the LAST file after the run
LastAfter(items, file) == IF Len(items) > 0 THEN items[1].link ELSE file

\* variant: FETCHED_AT written by every run
FetchedAtAfter_Always(items, file, today) == today

\* generate(medium): the FETCHED_AT file after the run
FetchedAtAfter(items, file, today) == IF Len(items) > 0 THEN today ELSE file

\* variant: main logs the error and the process ends normally
ExitStatus_Swallow(err) == 0

\* main of the single-source generation: a rejection of generate is caught,
\* logged and answered with process.exit(1); without one the process ends
\* with status 0
ExitStatus(err) == IF err = "none" THEN 0 ELSE 1

\* main of the multi-media generation: the rejection of one generate is
\* caught inside the loop over the media, main returns normally
ExitStatusMedia(err) == 0

\* variant: the iteration is entered again after fetchHtml has thrown
AfterThrow_Retry(e) == "loop"

\* generate: where control is after fetchHtml has thrown: no catch around
\* the call, the loop and generate are left
AfterThrow(e) == "failed"

\* --------------------------------------------------------------- actions
\* a new invocation: the day advances and the persisted state is noted
Invoke ==
  /\ pc \in {"idle", "done", "failed"}
  /\ run < MaxRuns
  /\ run' = run + 1
  /\ now' = now + 1
  /\ pre' = [LAST |-> LAST, FETCHED_AT |-> FETCHED_AT, feed |-> feed]
  /\ prevItems' = IF pc = "done" THEN allItems ELSE <<>>

\* generate(url) up to the crawl loop
GenerateUrlStart ==
  /\ entry = "url"
  /\ Invoke
  /\ lastUrl' = readLastUrl(LAST)
  /\ currentUrl' = 1
  /\ allItems' = <<>>
  /\ oneWeekAgo' = now' - WEEK_DAYS
  /\ fetches' = 0
  /\ stopReason' = "none"
  /\ crawled' = <<>>
  /\ fetched' = <<>>
  /\ readErr' = IF IGNORE_LAST THEN "none" ELSE ReadCode(LAST)
  /\ error' = "none"
  /\ exit' = NotExited
  /\ pc' = "loop"
  /\ UNCHANGED << entry, envIgnoreLast, persisted, site, medium, aside >>

\* main of the multi-media generation: loadMediaConfigurations
LoadMediaConfigurations ==
  /\ entry = "medium"
  /\ Invoke
  /\ medium' = [last |-> MediumLast(LAST), fetchedAt |-> FETCHED_AT]
  /\ readErr' = ReadCode(LAST)
  /\ error' = "none"
  /\ exit' = NotExited
  /\ pc' = "loaded"
  /\ UNCHANGED << entry, envIgnoreLast, persisted, site, runVars, aside >>

\* generate(medium) up to the crawl loop
GenerateMediumStart ==
  /\ pc = "loaded"
  /\ lastUrl' = medium.last
  /\ currentUrl' = 1
  /\ allItems' = <<>>
  /\ oneWeekAgo' = now - WEEK_DAYS
  /\ fetches' = 0
  /\ stopReason' = "none"
  /\ crawled' = <<>>
  /\ fetched' = <<>>
  /\ pc' = "loop"
  /\ UNCHANGED << entry, envIgnoreLast, persisted, site, now, run, medium, pre,
                  prevItems, error, readErr, exit, aside >>

\* one iteration of the crawl loop: fetch, parse, append, decide
FetchPage ==
  /\ pc = "loop"
  /\ fetches < MaxFetches
  /\ \E html \in (IF site[currentUrl].known THEN {site[currentUrl]} ELSE Pages(currentUrl)) :
       LET items       == parseNewsItems(html)
           all         == allItems \o items
           nextPageUrl == getNextPageUrl(html)
       IN  /\ site' = [site EXCEPT ![currentUrl] = html]
           /\ fetches' = fetches + 1
           /\ fetched' = Append(fetched, currentUrl)
           /\ IF NoItems(items)
              THEN /\ pc' = "filter"
                   /\ stopReason' = "empty"
                   /\ crawled' = allItems
                   /\ UNCHANGED << allItems, currentUrl >>
              ELSE /\ allItems' = all
                   /\ IF shouldContinueFetching(all, lastUrl, nextPageUrl, oneWeekAgo)
                      THEN /\ currentUrl' = nextPageUrl
                           /\ UNCHANGED << pc, stopReason, crawled >>
                      ELSE /\ pc' = "filter"
                           /\ stopReason' =
                                StopReason(all, lastUrl, nextPageUrl, oneWeekAgo)
                           /\ crawled' = all
                           /\ UNCHANGED currentUrl
  /\ UNCHANGED << entry, envIgnoreLast, persisted, now, run, medium, lastUrl,
                  oneWeekAgo, pre, prevItems, error, readErr, exit, aside >>

\* generate(url) after the crawl loop: cursor cut, cap, feed, saveLastUrl
FinishUrl ==
  /\ pc = "filter"
  /\ entry = "url"
  /\ LET out == CapItems(CursorCut(allItems, lastUrl))
     IN  /\ allItems' = out
         /\ feed' = FeedAfter(out, feed)
         /\ LAST' = LastAfterUrl(out, LAST)
  /\ exit' = ExitStatus(error)
  /\ pc' = "done"
  /\ UNCHANGED << entry, envIgnoreLast, FETCHED_AT, site, now, run, medium,
                  lastUrl, currentUrl, oneWeekAgo, fetches, stopReason,
                  crawled, pre, prevItems, fetched, error, readErr, aside >>

\* generate(medium) after the crawl loop: cursor cut, cap, feed, LAST,
\* FETCHED_AT
FinishMedium ==
  /\ pc = "filter"
  /\ entry = "medium"
  /\ LET out == CapItems(CursorCut(allItems, lastUrl))
     IN  /\ allItems' = out
         /\ feed' = FeedAfter(out, feed)
         /\ LAST' = LastAfter(out, LAST)
         /\ FETCHED_AT' = FetchedAtAfter(out, FETCHED_AT, now)
  /\ exit' = ExitStatusMedia(error)
  /\ pc' = "done"
  /\ UNCHANGED << entry, envIgnoreLast, site, now, run, medium, lastUrl,
                  currentUrl, oneWeekAgo, fetches, stopReason, crawled, pre,
                  prevItems, fetched, error, readErr, aside >>

Next ==
  \/ GenerateUrlStart
  \/ LoadMediaConfigurations
  \/ GenerateMediumStart
  \/ FetchPage
  \/ FinishUrl
  \/ FinishMedium

Spec == Init /\ [][Next]_vars

\* the crawl of runs without the override
InitCrawl == Init /\ envIgnoreLast = NULL

SpecCrawl == InitCrawl /\ [][Next]_vars

\* a source whose settings have no next-page rule
InitSinglePage == InitWith(SinglePageSettings, NoApplication)

SpecSinglePage == InitSinglePage /\ [][Next]_vars

\* ---------------------------------------------------------------- faults
\* how fetchHtml can fail: fetch rejects (a network error, or the request
\* aborted by the timer), or the response status is not ok
FetchFailures == { "fetch", "status" }

\* the errors other than ENOENT a read of the LAST file can end with
IoFaults == { "EACCES" }

\* variant: the items accumulated so far are written when a fetch fails
Rejected_Flush(items, files) ==
  [LAST       |-> LastAfter(items, files.LAST),
   FETCHED_AT |-> files.FETCHED_AT,
   feed       |-> FeedAfter(items, files.feed)]

\* generate: the files when fetchHtml has thrown: the error leaves the loop
\* and generate, no write is reached
Rejected(items, files) == files

\* one iteration of the crawl loop in which fetchHtml throws
FetchFails ==
  /\ pc = "loop"
  /\ fetches < MaxFetches
  /\ \E e \in FetchFailures :
       /\ error' = e
       /\ pc' = AfterThrow(e)
       /\ exit' = IF entry = "url" THEN ExitStatus(e) ELSE ExitStatusMedia(e)
  /\ fetches' = fetches + 1
  /\ fetched' = Append(fetched, currentUrl)
  /\ LET files == Rejected(allItems, [LAST |-> LAST, FETCHED_AT |-> FETCHED_AT,
                                      feed |-> feed])
     IN  /\ LAST' = files.LAST
         /\ FETCHED_AT' = files.FETCHED_AT
         /\ feed' = files.feed
  /\ UNCHANGED << entry, envIgnoreLast, site, now, run, medium, lastUrl,
                  currentUrl, allItems, oneWeekAgo, stopReason, crawled, pre,
                  prevItems, readErr, aside >>

\* generate(url) when readLastUrl throws: the LAST file is there but cannot
\* be read, the error is not ENOENT, it is logged and thrown again, and
\* generate rejects before the crawl loop
GenerateUrlReadFails ==
  /\ entry = "url"
  /\ ~IGNORE_LAST
  /\ LAST # NULL
  /\ Invoke
  /\ \E code \in IoFaults : readErr' = code
  /\ error' = "read"
  /\ exit' = ExitStatus("read")
  /\ lastUrl' = NULL
  /\ currentUrl' = NoPage
  /\ allItems' = <<>>
  /\ oneWeekAgo' = now' - WEEK_DAYS
  /\ fetches' = 0
  /\ stopReason' = "none"
  /\ crawled' = <<>>
  /\ fetched' = <<>>
  /\ pc' = "failed"
  /\ UNCHANGED << entry, envIgnoreLast, persisted, site, medium, aside >>

\* loadMediaConfigurations when the read of LAST throws although the file is
\* there: the catch has no test of the error, last stays null
LoadMediaReadFails ==
  /\ entry = "medium"
  /\ LAST # NULL
  /\ Invoke
  /\ \E code \in IoFaults : readErr' = code
  /\ medium' = [last |-> NULL, fetchedAt |-> FETCHED_AT]
  /\ error' = "none"
  /\ exit' = NotExited
  /\ pc' = "loaded"
  /\ UNCHANGED << entry, envIgnoreLast, persisted, site, runVars, aside >>

NextFaults ==
  \/ Next
  \/ FetchFails
  \/ GenerateUrlReadFails
  \/ LoadMediaReadFails

\* the faults do not depend on the override: it is left unset
InitFaults == Init /\ envIgnoreLast = NULL

SpecFaults == InitFaults /\ [][NextFaults]_vars

\* ------------------------------------------- single-source generation
\* generate(url) when loadMediaSettings throws: nothing is read or fetched
SettingsLoadFails ==
  /\ entry = "url"
  /\ Invoke
  /\ error' = "settings"
  /\ exit' = ExitStatus("settings")
  /\ readErr' = "none"
  /\ lastUrl' = NULL
  /\ currentUrl' = NoPage
  /\ allItems' = <<>>
  /\ oneWeekAgo' = now' - WEEK_DAYS
  /\ fetches' = 0
  /\ stopReason' = "none"
  /\ crawled' = <<>>
  /\ fetched' = <<>>
  /\ pc' = "failed"
  /\ UNCHANGED << entry, envIgnoreLast, persisted, site, medium, aside >>

\* generate(url) after the crawl loop when mkdir or writeFile of the feed
\* throws: saveLastUrl is not reached
FeedWriteFails ==
  /\ pc = "filter"
  /\ entry = "url"
  /\ LET out == CapItems(CursorCut(allItems, lastUrl))
     IN  /\ Len(out) > 0
         /\ allItems' = out
  /\ error' = "feedwrite"
  /\ exit' = ExitStatus("feedwrite")
  /\ pc' = "failed"
  /\ UNCHANGED << entry, envIgnoreLast, persisted, site, now, run, medium,
                  lastUrl, currentUrl, oneWeekAgo, fetches, stopReason,
                  crawled, pre, prevItems, fetched, readErr, aside >>

\* generate(url) after the crawl loop when the writeFile of saveLastUrl
\* throws: the feed is written, the error is logged and thrown again
CursorWriteFails ==
  /\ pc = "filter"
  /\ entry = "url"
  /\ ~IGNORE_LAST
  /\ LET out == CapItems(CursorCut(allItems, lastUrl))
     IN  /\ Len(out) > 0
         /\ allItems' = out
         /\ feed' = FeedAfter(out, feed)
  /\ error' = "cursorwrite"
  /\ exit' = ExitStatus("cursorwrite")
  /\ pc' = "failed"
  /\ UNCHANGED << entry, envIgnoreLast, LAST, FETCHED_AT, site, now, run,
                  medium, lastUrl, currentUrl, oneWeekAgo, fetches, stopReason,
                  crawled, pre, prevItems, fetched, readErr, aside >>

NextSingle ==
  \/ GenerateUrlStart
  \/ FetchPage
  \/ FinishUrl
  \/ SettingsLoadFails
  \/ GenerateUrlReadFails
  \/ FetchFails
  \/ FeedWriteFails
  \/ CursorWriteFails

\* the single-source generation, without the override
InitSingle == Init /\ entry = "url" /\ envIgnoreLast = NULL

SpecSingle == InitSingle /\ [][NextSingle]_vars

\* ------------------------------------------------- the writes of a run
\* what generate(medium) does with the file system once it has items, in the
\* order of the code: the feed directory, the feed file, LAST, FETCHED_AT
WriteSteps == << "mkdir", "feed", "LAST", "FETCHED_AT" >>

\* variant: the cursor is written before the feed file
WrittenBefore_CursorFirst(step) ==
  CASE step = "mkdir"      -> {}
    [] step = "LAST"       -> {}
    [] step = "feed"       -> {"LAST"}
    [] step = "FETCHED_AT" -> {"LAST", "feed"}

\* the files that have been written when the given step throws: every await
\* before it has resolved
WrittenBefore(step) ==
  LET at == CHOOSE i \in 1..Len(WriteSteps) : WriteSteps[i] = step
  IN  { WriteSteps[i] : i \in 1..(at - 1) } \ {"mkdir"}

\* generate(medium) after the crawl loop when one of its writes throws: the
\* files written before it stay written, the error leaves generate
MediumWriteFails ==
  /\ pc = "filter"
  /\ entry = "medium"
  /\ \E k \in 1..Len(WriteSteps) :
       LET step    == WriteSteps[k]
           written == WrittenBefore(step)
           out     == CapItems(CursorCut(allItems, lastUrl))
       IN  /\ Len(out) > 0
           /\ allItems' = out
           /\ feed' = IF "feed" \in written THEN FeedAfter(out, feed) ELSE feed
           /\ LAST' = IF "LAST" \in written THEN LastAfter(out, LAST) ELSE LAST
           /\ FETCHED_AT' = IF "FETCHED_AT" \in written
                            THEN FetchedAtAfter(out, FETCHED_AT, now)
                            ELSE FETCHED_AT
           /\ error' = step
           /\ exit' = ExitStatusMedia(step)
  /\ pc' = "failed"
  /\ UNCHANGED << entry, envIgnoreLast, site, now, run, medium, lastUrl,
                  currentUrl, oneWeekAgo, fetches, stopReason, crawled, pre,
                  prevItems, fetched, readErr, aside >>

NextWrites ==
  \/ Next
  \/ FeedWriteFails
  \/ CursorWriteFails
  \/ MediumWriteFails

\* the writes do not depend on the override, which is left unset; a cursor is
\* stored, so that a write that is not reached shows in the files
InitWrites == Init /\ envIgnoreLast = NULL /\ LAST # NULL

SpecWrites == InitWrites /\ [][NextWrites]_vars

\* ------------------------------------------------------ upstream changes
\* the node is listed on no page served so far
NotListed(n) ==
  \A p \in 1..NumPages : \A i \in 1..Len(site[p].nodes) : site[p].nodes[i] # n

\* between two runs the upstream source puts a new item at the head of its
\* first page; everything listed before stays, in the same order
UpstreamPrepends ==
  /\ pc = "done"
  /\ run < MaxRuns
  /\ site[1].known
  /\ Len(site[1].nodes) < MaxPageLen
  /\ \E n \in Nodes :
       /\ NotListed(n)
       /\ site' = [site EXCEPT ![1].nodes = <<n>> \o @]
  /\ UNCHANGED << entry, envIgnoreLast, persisted, now, run, pc, medium,
                  runVars, pre, prevItems, error, readErr, exit, aside >>

NextUpstream ==
  \/ Next
  \/ UpstreamPrepends

\* runs without the override
InitUpstream == Init /\ envIgnoreLast = NULL

SpecUpstream == InitUpstream /\ [][NextUpstream]_vars

\* --------------------------------------------------------- getNextPageUrl
\* everything but the function applied by itself
program == << entry, envIgnoreLast, persisted, site, now, run, pc, medium,
              runVars, pre, prevItems, error, readErr, http, batch, exit,
              settings >>

\* the program at rest while a function is applied by itself
InitPure(mediaSettings, application) ==
  /\ InitWith(mediaSettings, application)
  /\ entry = "url"
  /\ envIgnoreLast = NULL
  /\ LAST = NULL

\* what getAttribute("href") of an element matched by the next-page rule can
\* give: NULL without the attribute, the empty text, a root-relative path,
\* a relative one, an absolute URL
NextPageHrefs ==
  { NULL, <<>>, <<"/", "n">>, <<"n">>, <<"h", ":", "/", "/", "z">> }

\* the elements the next-page rule matches, in document order
NextPageMatches ==
  UNION { [1..n -> NextPageHrefs] : n \in 0..MaxMatches }

\* the URL of the page that is parsed: protocol and host
CurrentUrls ==
  { [protocol |-> <<"h", ":">>, host |-> <<"x">>],
    [protocol |-> <<"s", ":">>, host |-> <<"y">>] }

\* variant: the href of the first match is returned as it is
getNextPageUrlCss_Unresolved(matches, pageUrl) ==
  IF Len(matches) > 0 /\ matches[1] # NULL /\ Len(matches[1]) > 0
  THEN matches[1]
  ELSE NULL

\* getNextPageUrl with a CSS selector as next-page rule: querySelector gives
\* the first match; a truthy href is joined to protocol and host when it
\* starts with "/", returned as it is otherwise; null in every other case
getNextPageUrlCss(matches, pageUrl) ==
  IF Len(matches) > 0 /\ matches[1] # NULL /\ Len(matches[1]) > 0
  THEN IF matches[1][1] = "/"
       THEN pageUrl.protocol \o <<"/", "/">> \o pageUrl.host \o matches[1]
       ELSE matches[1]
  ELSE NULL

\* getNextPageUrl is called with a parsed page and its URL
ApplyGetNextPageUrl ==
  /\ pure.fn = "getNextPageUrl"
  /\ ~pure.applied
  /\ pure' = [pure EXCEPT
                !.result = getNextPageUrlCss(pure.args.matches, pure.args.currentUrl),
                !.applied = TRUE]
  /\ UNCHANGED program

NextNextPage == ApplyGetNextPageUrl

InitNextPage ==
  \E m \in NextPageMatches, u \in CurrentUrls :
     InitPure(PagedSettings,
              [fn |-> "getNextPageUrl", args |-> [matches |-> m, currentUrl |-> u],
               result |-> NULL, applied |-> FALSE])

SpecNextPage == InitNextPage /\ [][NextNextPage]_vars

\* --------------------------------------------------------- parseNewsItems
\* what a locator can find in a node: NULL for no element or no attribute
FoundTitles == { NULL, <<" ", "t">> }
FoundHrefs  == { NULL, <<"/", "a">>, <<"b">> }
FoundDates  == { NULL, <<"9">> }

\* the nodes the items rule can match
ParseNodes == [title : FoundTitles, href : FoundHrefs, datetime : FoundDates]

\* the pages parseNewsItems can be given: the matched nodes in document
\* order
ParsePages ==
  UNION { [known : {TRUE}, nodes : [1..n -> ParseNodes], next : {NoPage}] :
          n \in 0..MaxPageLen }

\* parseNewsItems is called with a page
ApplyParseNewsItems ==
  /\ pure.fn = "parseNewsItems"
  /\ ~pure.applied
  /\ pure' = [pure EXCEPT !.result = parseNewsItems(pure.args.html),
                          !.applied = TRUE]
  /\ UNCHANGED program

NextParse == ApplyParseNewsItems

InitParse ==
  \E html \in ParsePages :
     InitPure(PagedSettings,
              [fn |-> "parseNewsItems", args |-> [html |-> html],
               result |-> NULL, applied |-> FALSE])

SpecParse == InitParse /\ [][NextParse]_vars

\* ------------------------------------------------------- css selectors
\* the values a template can interpolate: strings, numbers and null
CssValues ==
  { [type |-> "string", text |-> <<"m">>, number |-> 0],
    [type |-> "string", text |-> <<>>,    number |-> 0],
    [type |-> "number", text |-> <<>>,    number |-> 0],
    [type |-> "number", text |-> <<>>,    number |-> 2],
    [type |-> "null",   text |-> <<>>,    number |-> 0] }

\* the literal parts of a template
CssParts == { <<>>, <<".">> }

\* a template: one literal part more than interpolated values
CssTemplates ==
  UNION { [strings : [1..(n + 1) -> CssParts], values : [1..n -> CssValues]] :
          n \in 0..MaxValues }

\* the string a value becomes when it is added to a string
ToStringOf(value) ==
  CASE value.type = "string" -> value.text
    [] value.type = "number" -> ToDigits(value.number)
    [] value.type = "null"   -> <<"n", "u", "l", "l">>

\* the values JavaScript takes for false: "", 0, null
Falsy(value) ==
  \/ value.type = "null"
  \/ value.type = "string" /\ value.text = <<>>
  \/ value.type = "number" /\ value.number = 0

\* values[i] || "" as it is added to the result; there is no value after the
\* last literal part
OrEmptyText(values, i) ==
  IF i > Len(values) \/ Falsy(values[i]) THEN <<>> ELSE ToStringOf(values[i])

RECURSIVE cssReduce(_, _, _)
\* strings.reduce over the parts up to the i-th
cssReduce(strings, values, i) ==
  IF i = 0 THEN <<>>
  ELSE cssReduce(strings, values, i - 1) \o strings[i] \o OrEmptyText(values, i)

\* the css tagged template
css(strings, values) == cssReduce(strings, values, Len(strings))

\* createCSSSelector: the argument with the brand of a selector
createCSSSelector(selector) == selector

\* a template is evaluated
ApplyCss ==
  /\ pure.fn = "css"
  /\ ~pure.applied
  /\ pure' = [pure EXCEPT !.result = css(pure.args.strings, pure.args.values),
                          !.applied = TRUE]
  /\ UNCHANGED program

NextCss == ApplyCss

InitCss ==
  \E t \in CssTemplates :
     InitPure(PagedSettings,
              [fn |-> "css", args |-> t, result |-> NULL, applied |-> FALSE])

SpecCss == InitCss /\ [][NextCss]_vars

\* -------------------------------------------------------------- fetchHtml
\* settings.fetch?.timeout: not set (the empty tuple), or a number of
\* milliseconds
TimeoutSettings == { <<>>, <<3000>> }

\* settings.fetch?.timeout ?? DEFAULT_FETCH_TIMEOUT
EffectiveTimeout(setting) ==
  IF setting = <<>> THEN DEFAULT_FETCH_TIMEOUT ELSE setting[1]

\* the call has not settled: fetch or response.text() is awaited
Pending == http.phase \in {"request", "body"}

\* the timer set by setTimeout is armed and its delay has passed
TimerDue == http.timer /\ http.elapsed >= http.timeout

\* fetchHtml is called: the timer is set and the request is sent
FetchHtmlCall ==
  /\ http.phase = "idle"
  /\ \E setting \in TimeoutSettings :
       http' = [phase   |-> "request",
                timeout |-> EffectiveTimeout(setting),
                timer   |-> TRUE,
                elapsed |-> 0,
                error   |-> "none"]
  /\ UNCHANGED << entry, envIgnoreLast, persisted, site, now, run, pc, medium,
                  runVars, pre, prevItems, error, readErr, batch, exit, settings,
                  pure >>

\* time passes while the call is pending; a timer that is due runs first
Tick ==
  /\ Pending
  /\ ~TimerDue
  /\ http.elapsed < MaxTicks * TickMs
  /\ http' = [http EXCEPT !.elapsed = @ + TickMs]
  /\ UNCHANGED << entry, envIgnoreLast, persisted, site, now, run, pc, medium,
                  runVars, pre, prevItems, error, readErr, batch, exit, settings,
                  pure >>

\* the timer callback: controller.abort(); the awaited fetch rejects and the
\* catch throws the error again
TimerFires ==
  /\ http.phase = "request"
  /\ TimerDue
  /\ http' = [http EXCEPT !.phase = "thrown", !.timer = FALSE, !.error = "abort"]
  /\ UNCHANGED << entry, envIgnoreLast, persisted, site, now, run, pc, medium,
                  runVars, pre, prevItems, error, readErr, batch, exit, settings,
                  pure >>

\* await fetch resolves with the response: clearTimeout, then the status test
ResponseArrives ==
  /\ http.phase = "request"
  /\ \E ok \in BOOLEAN :
       http' = [http EXCEPT
                  !.timer = FALSE,
                  !.phase = IF ok THEN "body" ELSE "thrown",
                  !.error = IF ok THEN "none" ELSE "status"]
  /\ UNCHANGED << entry, envIgnoreLast, persisted, site, now, run, pc, medium,
                  runVars, pre, prevItems, error, readErr, batch, exit, settings,
                  pure >>

\* await fetch rejects with a network error: clearTimeout is not reached
FetchRejects ==
  /\ http.phase = "request"
  /\ http' = [http EXCEPT !.phase = "thrown", !.error = "network"]
  /\ UNCHANGED << entry, envIgnoreLast, persisted, site, now, run, pc, medium,
                  runVars, pre, prevItems, error, readErr, batch, exit, settings,
                  pure >>

\* await response.text() settles: the text is returned, or the read of the
\* body fails
BodyArrives ==
  /\ http.phase = "body"
  /\ \E ok \in BOOLEAN :
       http' = [http EXCEPT
                  !.phase = IF ok THEN "returned" ELSE "thrown",
                  !.error = IF ok THEN "none" ELSE "body"]
  /\ UNCHANGED << entry, envIgnoreLast, persisted, site, now, run, pc, medium,
                  runVars, pre, prevItems, error, readErr, batch, exit, settings,
                  pure >>

NextFetch ==
  \/ FetchHtmlCall
  \/ Tick
  \/ TimerFires
  \/ ResponseArrives
  \/ FetchRejects
  \/ BodyArrives

\* one call of fetchHtml is looked at by itself
InitFetch ==
  /\ Init
  /\ entry = "medium"
  /\ envIgnoreLast = NULL
  /\ LAST = NULL

SpecFetch == InitFetch /\ [][NextFetch]_vars

\* ------------------------------------------------------- the media batch
\* what an entry of the media directory can be: not a directory, a directory
\* that loads, a directory whose URL file cannot be read, one whose URL value
\* new URL() rejects, one whose settings cannot be loaded
EntryKinds == { "file", "medium", "nourl", "badurl", "nosettings" }

\* what readdir can return
Directories == UNION { [1..n -> EntryKinds] : n \in 0..NumEntries }

RECURSIVE LoadedFrom_AbortOnFailure(_, _)
\* variant: one try around the whole loop, the first directory that fails to
\* load ends the loading
LoadedFrom_AbortOnFailure(entries, k) ==
  IF k > Len(entries) THEN <<>>
  ELSE IF entries[k] \in {"nourl", "badurl", "nosettings"} THEN <<>>
  ELSE (IF entries[k] = "medium" THEN <<k>> ELSE <<>>)
         \o LoadedFrom_AbortOnFailure(entries, k + 1)

RECURSIVE LoadedFrom(_, _)
\* loadMediaConfigurations: the entries pushed to media, from entry k on, in
\* directory order; an entry that is no directory or fails to load is left out
LoadedFrom(entries, k) ==
  IF k > Len(entries) THEN <<>>
  ELSE (IF entries[k] = "medium" THEN <<k>> ELSE <<>>) \o LoadedFrom(entries, k + 1)

\* how await generate(medium) can end
Outcomes == { "resolved", "rejected" }

\* the cursor record of a media directory as readdir found it: no generate of
\* this batch has written its LAST or its FETCHED_AT
AsFound == 0

\* variant: every medium keeps its cursor record in the first directory
MediaPath_Shared(k) == 1

\* mediaPath: path.join(mediaDir, entry.name), the directory of entry k
MediaPath(k) == k

\* the cursor files generate(medium) has written when it ends: it resolves
\* with nothing written (no items) or with LAST and FETCHED_AT written; it
\* rejects before the write of LAST, or at the write of FETCHED_AT
CursorWrites(outcome) ==
  IF outcome = "resolved" THEN { {}, {"LAST", "FETCHED_AT"} }
  ELSE { {}, {"LAST"} }

\* the cursor records after generate(medium) ended with these files written:
\* each written file carries the medium that wrote it
RecordsAfter(records, m, written) ==
  IF written = {} THEN records
  ELSE [records EXCEPT ![MediaPath(m)] =
          [f \in {"LAST", "FETCHED_AT"} |->
             IF f \in written THEN m ELSE records[MediaPath(m)][f]]]

\* variant: a rejected generate ends the loop
AfterGenerate_Abort(i, outcome, n) == IF outcome = "rejected" THEN n + 1 ELSE i + 1

\* for (const medium of media) { try { await generate(medium) } catch { } }:
\* the index of the medium the loop goes on with
AfterGenerate(i, outcome, n) == i + 1

\* main: loadMediaConfigurations, then the test of media.length
BatchLoad ==
  /\ batch.phase = "idle"
  /\ \E entries \in Directories :
       LET media == LoadedFrom(entries, 1)
       IN  batch' = [batch EXCEPT
                       !.entries = entries,
                       !.media   = media,
                       !.records = [k \in 1..Len(entries) |->
                                      [f \in {"LAST", "FETCHED_AT"} |-> AsFound]],
                       !.i       = 1,
                       !.phase   = IF Len(media) = 0 THEN "returned"
                                   ELSE "processing"]
  /\ UNCHANGED << entry, envIgnoreLast, persisted, site, now, run, pc, medium,
                  runVars, pre, prevItems, error, readErr, http, exit, settings,
                  pure >>

\* main: readdir throws, loadMediaConfigurations returns no media
BatchLoadFails ==
  /\ batch.phase = "idle"
  /\ batch' = [batch EXCEPT !.phase = "returned"]
  /\ UNCHANGED << entry, envIgnoreLast, persisted, site, now, run, pc, medium,
                  runVars, pre, prevItems, error, readErr, http, exit, settings,
                  pure >>

\* main: one iteration of the loop over media
BatchGenerate ==
  /\ batch.phase = "processing"
  /\ batch.i <= Len(batch.media)
  /\ \E outcome \in Outcomes : \E written \in CursorWrites(outcome) :
       LET j == AfterGenerate(batch.i, outcome, Len(batch.media))
       IN  batch' = [batch EXCEPT
                       !.calls   = Append(@, batch.media[batch.i]),
                       !.results = Append(@, outcome),
                       !.records = RecordsAfter(@, batch.media[batch.i], written),
                       !.i       = j,
                       !.phase   = IF j > Len(batch.media) THEN "completed"
                                   ELSE "processing"]
  /\ UNCHANGED << entry, envIgnoreLast, persisted, site, now, run, pc, medium,
                  runVars, pre, prevItems, error, readErr, http, exit, settings,
                  pure >>

NextBatch ==
  \/ BatchLoad
  \/ BatchLoadFails
  \/ BatchGenerate

\* the batch is looked at by itself: no single-source run is under way
InitBatch ==
  /\ Init
  /\ entry = "medium"
  /\ envIgnoreLast = NULL
  /\ LAST = NULL

SpecBatch == InitBatch /\ [][NextBatch]_vars

\* ------------------------------------- the crawl loop without a bound
\* what the later iterations of the loop can still read of the accumulated
\* items: shouldContinueFetching tests whether the cursor is among them, their
\* number when no cursor is set, and the date of the last one. While a cursor
\* is set and is not among the items, the items before the last one take part
\* in no later test and are left out; in every other case all are kept.
Retained(items, last) ==
  IF Truthy(last) /\ ~SomeLink(items, last) /\ Len(items) > 0
  THEN << items[Len(items)] >>
  ELSE items

\* an iteration of the crawl loop up to the await: fetchHtml(currentUrl)
\* resolves with the page; the fetches are not counted
LoopFetch ==
  /\ pc = "loop"
  /\ \E html \in (IF site[currentUrl].known THEN {site[currentUrl]} ELSE Pages(currentUrl)) :
       site' = [site EXCEPT ![currentUrl] = html]
  /\ pc' = "page"
  /\ UNCHANGED << entry, envIgnoreLast, persisted, now, run, medium, runVars,
                  pre, prevItems, error, readErr, exit, aside >>

\* the rest of the iteration: parse, append, decide
LoopDecide ==
  /\ pc = "page"
  /\ LET html        == site[currentUrl]
         items       == parseNewsItems(html)
         all         == allItems \o items
         nextPageUrl == getNextPageUrl(html)
     IN  IF NoItems(items)
         THEN /\ pc' = "filter"
              /\ stopReason' = "empty"
              /\ UNCHANGED << allItems, currentUrl >>
         ELSE IF shouldContinueFetching(all, lastUrl, nextPageUrl, oneWeekAgo)
              THEN /\ allItems' = Retained(all, lastUrl)
                   /\ currentUrl' = nextPageUrl
                   /\ pc' = "loop"
                   /\ UNCHANGED stopReason
              ELSE /\ allItems' = all
                   /\ pc' = "filter"
                   /\ stopReason' =
                        StopReason(all, lastUrl, nextPageUrl, oneWeekAgo)
                   /\ UNCHANGED currentUrl
  /\ UNCHANGED << entry, envIgnoreLast, persisted, site, now, run, medium,
                  lastUrl, oneWeekAgo, fetches, crawled, fetched, pre,
                  prevItems, error, readErr, exit, aside >>

NextLoop ==
  \/ LoadMediaConfigurations
  \/ GenerateMediumStart
  \/ LoopFetch
  \/ LoopDecide

InitLoop ==
  /\ Init
  /\ entry = "medium"
  /\ envIgnoreLast = NULL

\* every fetch succeeds: a fetch that is awaited resolves, and the iteration
\* goes on from it
SpecLoop ==
  InitLoop /\ [][NextLoop]_vars /\ WF_vars(LoopFetch) /\ WF_vars(LoopDecide)

\* ------------------------------------------------------------ properties
TypeOK ==
  /\ pc \in {"idle", "loaded", "loop", "page", "filter", "done", "failed"}
  /\ run \in 0..MaxRuns
  /\ fetches \in 0..MaxFetches
  /\ exit \in {NotExited, 0, 1}
  /\ settings \in {PagedSettings, SinglePageSettings}
  /\ pure.applied \in BOOLEAN

\* the run has ended and its outputs are written
Done == pc = "done"

\* C1: in every run the list of items written to the feed has at most
\* MAX_ITEMS (40) items, whatever the pages return.
C1_CapInvariant ==
  /\ feed.exists => Len(feed.items) <= MAX_ITEMS
  /\ Done => Len(allItems) <= MAX_ITEMS

\* a run that crawled more than 40 items and wrote exactly 40
C1_Witness ==
  /\ Done
  /\ Len(crawled) > MAX_ITEMS
  /\ feed.exists /\ Len(feed.items) = MAX_ITEMS
  /\ feed # pre.feed

\* C2 as stated: if a cursor was set (not null) before a run, no item of the
\* run's output has a link equal to that cursor.
C2_Original ==
  (Done /\ lastUrl # NULL) =>
     \A i \in 1..Len(allItems) : allItems[i].link # lastUrl

\* C2 amended: if a non-empty cursor was read before a run, no item of the
\* run's output has a link equal to that cursor.
C2_CursorExclusive ==
  (Done /\ Truthy(lastUrl)) =>
     \A i \in 1..Len(allItems) : allItems[i].link # lastUrl

\* the cursor item was crawled behind newer items, which survive
C2_Witness ==
  /\ Done
  /\ Truthy(lastUrl)
  /\ SomeLink(crawled, lastUrl)
  /\ Len(allItems) > 0
  /\ Len(allItems) < Len(crawled)

\* the link is read back from the LAST file as it was written
ReadBackUnchanged(link) == Truthy(link) /\ Trim(link) = link

C4_CursorIsFirstLink ==
  (Done /\ Len(allItems) > 0 /\ ~IGNORE_LAST) => LAST = allItems[1].link

\* a run with several surviving items replaced the cursor by the first link
C4_Witness ==
  /\ Done /\ ~IGNORE_LAST
  /\ Len(allItems) > 1
  /\ allItems[1].link # allItems[Len(allItems)].link
  /\ LAST = allItems[1].link
  /\ LAST # pre.LAST

\* C5: a run that ends with no surviving item writes nothing: LAST,
\* FETCHED_AT and the feed file are as they were before the run.
C5_EmptyRunWritesNothing ==
  (Done /\ allItems = <<>>) =>
     (LAST = pre.LAST /\ FETCHED_AT = pre.FETCHED_AT /\ feed = pre.feed)

\* a run whose crawled items were all cut, with a feed of an earlier day
C5_Witness ==
  /\ Done
  /\ allItems = <<>>
  /\ Len(crawled) > 0
  /\ pre.feed.exists
  /\ pre.FETCHED_AT # NaN /\ pre.FETCHED_AT # now
  /\ FETCHED_AT = pre.FETCHED_AT

\* C6: with the override active (IGNORE_LAST = "1") a run never writes the
\* cursor store: LAST after the run is LAST before the run.
C6_OverrideKeepsCursor == (Done /\ IGNORE_LAST) => LAST = pre.LAST

\* C7: with the override active and a stored cursor whose link is on page 1,
\* the crawl behaves as if no cursor were set: it does not stop for the
\* cursor and the output is not cut at it.
C7_OverrideIgnoresCursor ==
  (/\ Done /\ IGNORE_LAST
   /\ pre.LAST # NULL
   /\ SomeLink(parseNewsItems(site[1]), Trim(pre.LAST))) =>
     (stopReason # "cursor" /\ allItems = CapItems(crawled))

\* C8: when IGNORE_LAST is "1", loadMediaConfigurations returns last = null,
\* also when a LAST file exists.
C8_LoadIgnoresLast == (pc = "loaded" /\ IGNORE_LAST) => medium.last = NULL

\* t is s without its leading and trailing whitespace
IsTrimOf(t, s) ==
  \E a, b \in 0..Len(s) :
     /\ a + b <= Len(s)
     /\ t = SubSeq(s, a + 1, Len(s) - b)
     /\ \A i \in 1..a : IsSpace(s[i])
     /\ \A i \in (Len(s) - b + 1)..Len(s) : IsSpace(s[i])
     /\ t # <<>> => (~IsSpace(t[1]) /\ ~IsSpace(t[Len(t)]))

\* the cursor the started run works with
CursorRead == IF pc = "loaded" THEN medium.last ELSE lastUrl

\* C9: the override is active only for the exact value "1": when
\* IGNORE_LAST is unset or has another value, the stored cursor is read and
\* its trimmed content is the last link of the run.
C9_CursorReadUnlessOne ==
  (pc # "idle" /\ envIgnoreLast # <<"1">> /\ pre.LAST # NULL) =>
     IsTrimOf(CursorRead, pre.LAST)

\* IGNORE_LAST = "0": generate(url) read "a" from a LAST file holding "a\n"
C9_Witness ==
  /\ pc = "loop" /\ entry = "url"
  /\ envIgnoreLast = <<"0">>
  /\ pre.LAST = <<"a", "\n">>
  /\ lastUrl = <<"a">>

\* the dates of the items all parse and strictly descend
StrictlyDescending(items) ==
  /\ \A i \in 1..Len(items) : ParseDate(items[i].pubDate) # NaN
  /\ \A i, j \in 1..Len(items) :
       i < j => ParseDate(items[i].pubDate) > ParseDate(items[j].pubDate)

\* C10: for a source whose items are in strictly descending date order, no
\* item of a run's output has a publish date earlier than seven days before
\* the run's start.
C10_AgeWindow ==
  (Done /\ StrictlyDescending(crawled)) =>
     \A i \in 1..Len(allItems) :
        ~DateLess(ParseDate(allItems[i].pubDate), oneWeekAgo)

\* the error generate rejected with came from fetchHtml
FetchRejected == pc = "failed" /\ error \in FetchFailures

\* C11: if fetching a page fails, on the first page or after earlier pages
\* were fetched, generate rejects with that error and writes neither the
\* feed file nor the cursor; the items accumulated so far are not emitted.
C11_FetchFailureWritesNothing ==
  /\ FetchRejected =>
       (LAST = pre.LAST /\ FETCHED_AT = pre.FETCHED_AT /\ feed = pre.feed)
  /\ (pc = "failed") = (error # "none")

\* the third fetch of a run failed after two pages had brought items
C11_Witness ==
  /\ FetchRejected
  /\ Len(fetched) = 3
  /\ Len(allItems) > 1
  /\ feed = pre.feed /\ ~feed.exists

\* C12: in the multi-source batch every loaded medium is processed exactly
\* once, in list order: generate is called for the media as a prefix of the
\* list, the loop goes on while a medium is left, whatever the earlier calls
\* ended with, and it completes with every medium called.
C12_BatchProcessesAll ==
  /\ Len(batch.calls) <= Len(batch.media)
  /\ batch.calls = SubSeq(batch.media, 1, Len(batch.calls))
  /\ Len(batch.results) = Len(batch.calls)
  /\ batch.phase = "processing" =>
       (batch.i = Len(batch.calls) + 1 /\ batch.i <= Len(batch.media))
  /\ batch.phase = "completed" => batch.calls = batch.media

\* a batch of several media completed although the first generate rejected
C12_Witness ==
  /\ batch.phase = "completed"
  /\ Len(batch.media) > 1
  /\ batch.results[1] = "rejected"
  /\ batch.calls = batch.media

\* the run wrote the feed file
FeedWritten == Done /\ Len(allItems) > 0

\* C13: when the raw publish-date text of an item cannot be parsed as a date,
\* the feed carries the raw text unchanged as the pubDate of that item.
C13_RawDateFallback ==
  FeedWritten =>
     \A i \in 1..Len(allItems) :
        ParseDate(allItems[i].pubDate) = NaN =>
           feed.items[i].pubDate = allItems[i].pubDate

\* C14: the emitted feed is deduplicated by link: no two items of one run's
\* output have equal links, also when two pages fetched one after the other
\* list the same item.
C14_NoDuplicateLinks ==
  Done =>
     \A i, j \in 1..Len(allItems) :
        i # j => allItems[i].link # allItems[j].link

\* the run follows a finished run of the same source
SecondRun == Done /\ run >= 2 /\ ~IGNORE_LAST

FirstPage == parseNewsItems(site[1])

NoStale(items) ==
  \A i \in 1..Len(items) : ~DateLess(ParseDate(items[i].pubDate), oneWeekAgo)

\* the first MAX_ITEMS of the items, all of them when there are fewer
FirstForty(items) ==
  SubSeq(items, 1, IF Len(items) < MAX_ITEMS THEN Len(items) ELSE MAX_ITEMS)

\* the pages were fetched in order: the entry page, then along the next links
FetchedInOrder ==
  /\ Len(fetched) > 0 => fetched[1] = 1
  /\ \A i \in 1..(Len(fetched) - 1) : fetched[i + 1] = site[fetched[i]].next

\* the page fetched last
LastFetched == site[fetched[Len(fetched)]]

\* a cold start: no cursor was read, no crawled item is older than a week
ColdStart == Done /\ lastUrl = NULL /\ NoStale(crawled)

\* pages of 15, 15 and 15 fresh items, no next link on page 3: the loop goes
\* on after pages 1 and 2, ends after page 3, and 40 items are left
C17_Example ==
  LET page == [i \in 1..15 |-> [link |-> <<"a">>, pubDate |-> <<"9">>]]
  IN  /\ shouldContinueFetching(page, NULL, 2, 2)
      /\ shouldContinueFetching(page \o page, NULL, 3, 2)
      /\ ~shouldContinueFetching(page \o page \o page, NULL, NoPage, 2)
      /\ Len(CapItems(page \o page \o page)) = 40

\* C17 as stated: in a cold-start run over items none of which is older than
\* a week, pages are fetched in order until the accumulated count reaches 40
\* or a page has no next-page link; the output is the first 40 accumulated
\* items and the cursor is set to the link of the first item.
C17_Original ==
  ColdStart =>
     /\ FetchedInOrder
     /\ (Len(crawled) >= MAX_ITEMS \/ LastFetched.next = NoPage)
     /\ allItems = FirstForty(crawled)
     /\ Len(allItems) > 0 => LAST = allItems[1].link

\* C17 amended: the loop also ends at a page without items, and the cursor
\* is set only when the override is not active.
C17_ColdStart ==
  /\ (pc = "loop" /\ lastUrl = NULL) => Len(allItems) < MAX_ITEMS
  /\ ColdStart =>
       /\ FetchedInOrder
       /\ stopReason \in {"cap", "nonext", "empty"}
       /\ stopReason = "cap" => Len(crawled) >= MAX_ITEMS
       /\ stopReason = "nonext" =>
            (LastFetched.next = NoPage /\ LastFetched.nodes # <<>>)
       /\ stopReason = "empty" => LastFetched.nodes = <<>>
       /\ allItems = FirstForty(crawled)
       /\ (Len(allItems) > 0 /\ ~IGNORE_LAST) => LAST = allItems[1].link
  /\ C17_Example

\* a cold start that went round until more than 40 items were accumulated:
\* 40 are emitted and the cursor is the link of the first
C17_Witness ==
  /\ ColdStart
  /\ ~IGNORE_LAST
  /\ stopReason = "cap"
  /\ Len(fetched) > 2
  /\ Len(crawled) > MAX_ITEMS
  /\ Len(allItems) = MAX_ITEMS
  /\ LAST = allItems[1].link
  /\ LAST # pre.LAST

RECURSIVE PagesItems(_)
\* the items of the pages with the given URLs, in that order
PagesItems(urls) ==
  IF urls = <<>> THEN <<>>
  ELSE parseNewsItems(site[Head(urls)]) \o PagesItems(Tail(urls))

\* the crawl loop ended at a page without items
EndedAtEmptyPage == pc \in {"filter", "done"} /\ stopReason = "empty"

\* C18: when a fetched page yields zero items the crawl loop stops at once:
\* the loop is never back at its top after such a page, whatever its next
\* link, the output is built from the items of the earlier pages, and the
\* run ends normally.
C18_EmptyPageEndsLoop ==
  /\ pc = "loop" =>
       \A i \in 1..Len(fetched) : site[fetched[i]].nodes # <<>>
  /\ EndedAtEmptyPage =>
       /\ LastFetched.nodes = <<>>
       /\ crawled = PagesItems(SubSeq(fetched, 1, Len(fetched) - 1))
       /\ error = "none"
  /\ (Done /\ stopReason = "empty") =>
       LET cut == IF Truthy(lastUrl) /\ SomeLink(crawled, lastUrl)
                  THEN SubSeq(crawled, 1, FindIndex(crawled, lastUrl) - 1)
                  ELSE crawled
       IN  allItems = FirstForty(cut)

\* the second page had no items but a next link: the run ended there and
\* emitted the items of the first page
C18_Witness ==
  /\ Done
  /\ stopReason = "empty"
  /\ Len(fetched) = 2
  /\ LastFetched.next # NoPage
  /\ Len(allItems) > 0
  /\ allItems = parseNewsItems(site[fetched[1]])
  /\ feed.exists /\ feed # pre.feed

\* C19: a missing LAST file yields a null cursor, while any other failure of
\* the read is fatal to the run of that source and is never taken as a null
\* cursor.
C19_ReadFailureIsFatal ==
  /\ (pc # "idle" /\ readErr = "ENOENT") => CursorRead = NULL
  /\ (pc # "idle" /\ readErr \in IoFaults) => (pc = "failed" /\ error = "read")

\* C20: each call of fetchHtml is bounded by its effective timeout: a call
\* that has not returned the page text when the timeout has passed is
\* aborted and fails, so that no call is pending beyond the timeout.
C20_FetchBoundedByTimeout ==
  Pending => http.elapsed < http.timeout + TickMs

\* C21: there is no retry: every iteration of the crawl loop issues exactly
\* one request, for the current page URL, and once a fetch has failed no
\* further request is issued in that invocation
C21_NoRetry ==
  [][ /\ pc = "loop" =>
           /\ fetches' = fetches + 1
           /\ fetched' = Append(fetched, currentUrl)
      /\ (error \in FetchFailures /\ run' = run) =>
           /\ fetched' = fetched
           /\ fetches' = fetches ]_vars

\* a fetch failed after an earlier page had been fetched
C21_Witness ==
  /\ pc = "failed"
  /\ error \in FetchFailures
  /\ Len(fetched) = 2
  /\ fetched[2] = 2

\* C22: in single-source mode every fatal error of the run (settings load,
\* cursor read, page fetch, feed write, cursor write) ends the process with
\* exit status 1, and nothing else does
FatalErrors == { "settings", "read", "feedwrite", "cursorwrite" } \cup FetchFailures

C22_FatalErrorExitsOne ==
  entry = "url" =>
    /\ (error \in FatalErrors <=> pc = "failed")
    /\ (pc = "failed" => exit = 1)
    /\ (pc = "done" => exit = 0)

\* the cursor write failed after the feed was written
C22_Witness ==
  /\ entry = "url"
  /\ error = "cursorwrite"
  /\ feed # pre.feed
  /\ LAST = pre.LAST
  /\ exit = 1

\* parseNewsItems has returned
Parsed == pure.fn = "parseNewsItems" /\ pure.applied

\* the scheme and host of the source
Origin == << "h", ":", "/", "/", "x" >>

\* a raw link that begins with "/" joined to the origin, any other unchanged
ResolvedLink(raw) ==
  IF Len(raw) > 0 /\ raw[1] = "/" THEN Origin \o raw ELSE raw

\* the field of an item for what the locator found
FieldOf(found) == IF found = NULL THEN <<>> ELSE found

\* C23: an item link whose raw value begins with "/" is stored in the item
\* and emitted in the feed resolved against the origin of the source, any
\* other link value unchanged
C23_ItemLinkResolved ==
  Parsed =>
    \A k \in 1..Len(pure.result) :
       LET raw == FieldOf(pure.args.html.nodes[k].href)
       IN  /\ pure.result[k].link = ResolvedLink(raw)
           /\ generateRss(pure.result)[k].link = ResolvedLink(raw)

\* getNextPageUrl has returned for a declarative rule
NextPageApplied == pure.fn = "getNextPageUrl" /\ pure.applied

\* protocol "//" host href
AgainstCurrentPage(href) ==
  pure.args.currentUrl.protocol \o <<"/", "/">> \o pure.args.currentUrl.host \o href

\* C24 as stated: the href of the first match, resolved when it begins with
\* "/", none when nothing matches or the match has no href attribute
C24_Original ==
  NextPageApplied =>
    LET m == pure.args.matches
    IN  IF Len(m) = 0 \/ m[1] = NULL
        THEN pure.result = NULL
        ELSE IF Len(m[1]) > 0 /\ m[1][1] = "/"
             THEN pure.result = AgainstCurrentPage(m[1])
             ELSE pure.result = m[1]

\* C24: for a declarative next-page rule getNextPageUrl returns the href of
\* the first matching element, resolved against the scheme and host of the
\* current page when it begins with "/" and unchanged otherwise; when nothing
\* matches, or the match has no href or an empty one, it returns none
C24_NextPageHref ==
  NextPageApplied =>
    LET m == pure.args.matches
    IN  IF Len(m) = 0 \/ m[1] = NULL \/ m[1] = <<>>
        THEN pure.result = NULL
        ELSE IF m[1][1] = "/"
             THEN pure.result = AgainstCurrentPage(m[1])
             ELSE pure.result = m[1]

\* two matches, the first root-relative, the second absolute
C24_Witness ==
  /\ NextPageApplied
  /\ pure.args.matches = << <<"/", "n">>, <<"h", ":", "/", "/", "z">> >>
  /\ pure.result = <<"s", ":", "/", "/", "y", "/", "n">>

\* C25: extraction with declarative rules never fails for missing elements:
\* the matched nodes yield one item each, in document order, a title, link
\* or date that is not there is the empty string, a title that is there is
\* its trimmed text, a link or date its attribute
C25_OneItemPerNode ==
  Parsed =>
    /\ Len(pure.result) = Len(pure.args.html.nodes)
    /\ \A k \in 1..Len(pure.result) :
         LET n == pure.args.html.nodes[k]
         IN  /\ pure.result[k].link = FieldOf(n.href)
             /\ pure.result[k].pubDate = FieldOf(n.datetime)
             /\ n.title = NULL => pure.result[k].title = <<>>
             /\ n.title # NULL => IsTrimOf(pure.result[k].title, n.title)

\* a node without any of the elements after a complete one
C25_Witness ==
  /\ Parsed
  /\ Len(pure.result) = 2
  /\ pure.args.html.nodes[1] =
       [title |-> <<" ", "t">>, href |-> <<"b">>, datetime |-> <<"9">>]
  /\ pure.args.html.nodes[2] = [title |-> NULL, href |-> NULL, datetime |-> NULL]
  /\ pure.result[1] = [title |-> <<"t">>, link |-> <<"b">>, pubDate |-> <<"9">>]
  /\ pure.result[2] = [title |-> <<>>, link |-> <<>>, pubDate |-> <<>>]

\* C26: when the settings of a source have no next-page rule the next-page
\* link is none for every page: the crawl loop is left after its first
\* iteration and a run fetches the entry URL and nothing else, whatever the
\* cursor, the item count and the dates
C26_SinglePage ==
  settings.nextPageSelector = "none" =>
    /\ pc = "loop" => fetched = <<>>
    /\ pc \in {"filter", "done"} => fetched = <<1>>

\* a cold run over a page of two fresh items that shows a next link
C26_Witness ==
  /\ settings.nextPageSelector = "none"
  /\ Done
  /\ lastUrl = NULL
  /\ site[1].next = 2
  /\ Len(crawled) = 2
  /\ \A k \in 1..2 : ~DateLess(ParseDate(crawled[k].pubDate), oneWeekAgo)
  /\ fetched = <<1>>

RECURSIVE Interleaved(_, _, _)
\* the literal parts up to the i-th, each followed by the string form of the
\* value interpolated after it
Interleaved(strings, values, i) ==
  IF i = 0 THEN <<>>
  ELSE Interleaved(strings, values, i - 1) \o strings[i]
         \o (IF i <= Len(values) THEN ToStringOf(values[i]) ELSE <<>>)

\* C27: the css tagged template returns the literal parts interleaved with
\* the string form of every interpolated value, in order, for all values;
\* without interpolation the result is createCSSSelector of the same text,
\* which is that text
C27_CssInterleaves ==
  (pure.fn = "css" /\ pure.applied) =>
    /\ pure.result =
         Interleaved(pure.args.strings, pure.args.values, Len(pure.args.strings))
    /\ pure.args.values = <<>> =>
         /\ pure.result = createCSSSelector(pure.args.strings[1])
         /\ createCSSSelector(pure.args.strings[1]) = pure.args.strings[1]

\* a cursor is set: the LAST file was there and was read
CursorStored == lastUrl # NULL

\* a cursor is set and is not the empty string
CursorSet == lastUrl # NULL /\ lastUrl # <<>>

\* the four conditions of the continue decision, for the accumulated items
\* and for what counts as a cursor that is set
NextPageExists == LastFetched.next # NoPage

CursorNotReached(items, set) ==
  ~(set /\ \E k \in 1..Len(items) : items[k].link = lastUrl)

BelowCap(items, set) == ~(~set /\ Len(items) >= 40)

LastNotAged(items) ==
  ~(/\ Len(items) > 0
    /\ ParseDate(items[Len(items)].pubDate) # NaN
    /\ ParseDate(items[Len(items)].pubDate) < oneWeekAgo)

\* the first of the four conditions that fails
FirstFailing(items, set) ==
  IF ~NextPageExists THEN "nonext"
  ELSE IF ~CursorNotReached(items, set) THEN "cursor"
  ELSE IF ~BelowCap(items, set) THEN "cap"
  ELSE IF ~LastNotAged(items) THEN "age"
  ELSE "continue"

\* the loop goes on only when all four hold, and when it stops the first
\* condition that fails, in that order, is the reported reason
ContinueDecision(set) ==
  /\ (pc = "loop" /\ fetched # <<>>) =>
       /\ NextPageExists
       /\ CursorNotReached(allItems, set)
       /\ BelowCap(allItems, set)
       /\ LastNotAged(allItems)
  /\ (pc = "filter" /\ stopReason # "empty") =>
       /\ stopReason = FirstFailing(crawled, set)
       /\ stopReason # "continue"

\* C28 as stated, a cursor being set when one was stored, the empty one
\* included
C28_Original == ContinueDecision(CursorStored)

\* C28: the continue decision taken after the items of a page were appended
\* is true exactly when a next-page URL exists, the cursor (if set and not
\* empty) is not among the accumulated items, the count is below 40 when no
\* cursor is set or it is empty, and the last accumulated item is not dated
\* earlier than a week before the run; the conditions are tested in that
\* order and the first that fails is the reported stop reason
C28_ContinueDecision == ContinueDecision(CursorSet)

\* the loop stopped for a missing next-page URL although the last item is
\* also older than a week and the cursor is also among the items
C28_Witness ==
  /\ pc = "filter"
  /\ stopReason = "nonext"
  /\ ~CursorNotReached(crawled, CursorSet)
  /\ ~LastNotAged(crawled)

\* the items of the fetched pages: pages in fetch order, document order
\* within a page
Accumulated == PagesItems(fetched)

\* the cursor is set and some accumulated item has it as link
CursorOccurs(set) ==
  set /\ \E k \in 1..Len(Accumulated) : Accumulated[k].link = lastUrl

\* the number of accumulated items before the first one whose link is the
\* cursor (its index counted from 0); the accumulated count when no cursor
\* is set or it does not occur
CutIndex(set) ==
  IF CursorOccurs(set)
  THEN (CHOOSE k \in 1..Len(Accumulated) :
          /\ Accumulated[k].link = lastUrl
          /\ \A j \in 1..(k - 1) : Accumulated[j].link # lastUrl) - 1
  ELSE Len(Accumulated)

\* the output is the prefix of the accumulated items of length min(40, k) and
\* the feed lists it in the same order
OutputIsPrefix(set) ==
  Done =>
    /\ allItems = SubSeq(Accumulated, 1,
                         IF CutIndex(set) < 40 THEN CutIndex(set) ELSE 40)
    /\ Len(allItems) > 0 =>
         /\ Len(feed.items) = Len(allItems)
         /\ \A k \in 1..Len(allItems) :
              /\ feed.items[k].link = allItems[k].link
              /\ feed.items[k].pubDate = formatRssDate(allItems[k].pubDate)

\* C29 as stated, a cursor being set when one was stored, the empty one
\* included
C29_Original == OutputIsPrefix(CursorStored)

\* C29: the output of a run is the prefix of the concatenation of the items
\* of the fetched pages of length min(40, k), k the index of the first
\* accumulated item whose link is the cursor, or the accumulated count when
\* no cursor is set, it is empty, or it does not occur; the feed lists the
\* output in the same order
C29_OutputIsPrefix == OutputIsPrefix(CursorSet)

\* the cursor is the link of the second accumulated item: the output is the
\* first one
C29_Witness ==
  /\ Done
  /\ CursorOccurs(CursorSet)
  /\ CutIndex(CursorSet) = 1
  /\ Len(Accumulated) >= 2
  /\ allItems = << Accumulated[1] >>
  /\ feed.items[1].link = Accumulated[1].link

\* more than 40 items were accumulated without a cursor: the output is the
\* first 40, which are not the last 40
C29_CapReached ==
  /\ Done
  /\ ~CursorSet
  /\ Len(Accumulated) > 40
  /\ allItems = SubSeq(Accumulated, 1, 40)
  /\ allItems # SubSeq(Accumulated, Len(Accumulated) - 39, Len(Accumulated))

\* the item is dated earlier than a week before the run
Aged(item) == ParseDate(item.pubDate) # NaN /\ ParseDate(item.pubDate) < oneWeekAgo

\* a fresh item, one dated day 2 and one whose date does not parse: with a
\* next page and no cursor the decision for a week that began on day 8
C30_Example ==
  LET fresh == [link |-> <<"a">>, pubDate |-> <<"9">>]
      old   == [link |-> <<"b">>, pubDate |-> <<"2">>]
      bad   == [link |-> <<"c">>, pubDate |-> <<"x">>]
      none  == [link |-> <<"d">>, pubDate |-> <<>>]
  IN  /\ shouldContinueFetching(<<old, fresh>>, NULL, 2, 8)
      /\ shouldContinueFetching(<<old, bad>>, NULL, 2, 8)
      /\ shouldContinueFetching(<<old, none>>, NULL, 2, 8)
      /\ ~shouldContinueFetching(<<fresh, old>>, NULL, 2, 8)

\* C30: the age cutoff looks only at the last accumulated item: the loop
\* stops for age only when that item is dated earlier than a week before the
\* run, an older item at another position does not stop it, and a last item
\* whose date is empty or does not parse never does
C30_AgeCutoffLastItemOnly ==
  /\ C30_Example
  /\ (pc \in {"filter", "done"} /\ stopReason = "age") =>
       /\ Len(crawled) > 0
       /\ Aged(crawled[Len(crawled)])
  /\ (pc = "loop" /\ Len(allItems) > 0) => ~Aged(allItems[Len(allItems)])

\* the loop goes on after a page whose first item is older than a week and
\* whose last item has no date
C30_Witness ==
  /\ pc = "loop"
  /\ Len(allItems) = 2
  /\ Aged(allItems[1])
  /\ allItems[2].pubDate = <<>>

\* the medium of directory k has been handed to generate in this batch
Called(k) == \E c \in 1..Len(batch.calls) : batch.calls[c] = k

\* C31: a run for one source changes only the cursor record (LAST and
\* FETCHED_AT) of its own media directory: every file of the record of
\* directory k is as found or written by the run for k, and the record of a
\* directory whose source has not run is as found, whatever runs came before.
C31_OwnCursorRecordOnly ==
  \A k \in 1..Len(batch.records) : \A f \in {"LAST", "FETCHED_AT"} :
    /\ batch.records[k][f] \in {AsFound, k}
    /\ ~Called(k) => batch.records[k][f] = AsFound

\* two sources ran and each wrote its own record; a third directory was left
C31_Witness ==
  /\ batch.phase = "completed"
  /\ Len(batch.calls) = 2
  /\ Len(batch.entries) = 3
  /\ \A c \in 1..2 : batch.records[batch.calls[c]]["LAST"] = batch.calls[c]
  /\ \E k \in 1..3 : ~Called(k) /\ batch.records[k]["LAST"] = AsFound

\* the directories that fail to load
Failing(entries) ==
  { k \in 1..Len(entries) : entries[k] \in {"nourl", "badurl", "nosettings"} }

\* C39: loading media configurations isolates failures: the media returned are
\* exactly the directories that load, in directory order, whatever directory
\* before or after them failed on its URL file, its URL value or its settings.
C39_LoadIsolatesFailures ==
  batch.phase # "idle" =>
    /\ \A k \in 1..Len(batch.entries) :
         (batch.entries[k] = "medium") <=>
           (\E j \in 1..Len(batch.media) : batch.media[j] = k)
    /\ \A j \in 1..Len(batch.media) : \A h \in 1..Len(batch.media) :
         j < h => batch.media[j] < batch.media[h]
    /\ \A k \in Failing(batch.entries) :
         \A j \in 1..Len(batch.media) : batch.media[j] # k

\* a directory failed to load and a directory after it was loaded
C39_Witness ==
  /\ batch.phase = "processing"
  /\ \E k \in Failing(batch.entries) :
       \E j \in 1..Len(batch.media) : batch.media[j] > k
  /\ \E k \in 1..Len(batch.entries) : batch.entries[k] = "nosettings"

\* C32: every run terminates: for any source whose fetches all succeed and
\* for any cursor state, a crawl loop that has started eventually stops.
C32_LoopTerminates == (pc \in {"loop", "page"}) ~> (pc = "filter")

\* the part of C32 that holds: a run without a non-empty cursor leaves the loop
C32_ColdLoopTerminates ==
  (pc \in {"loop", "page"} /\ ~Truthy(lastUrl)) ~> (pc = "filter")

\* leaving items out of the accumulated list as Retained does changes no
\* decision of the loop, whatever page comes next
RetainedDecides ==
  pc = "loop" =>
    \A p \in 1..NumPages : \A html \in Pages(p) :
      LET items == parseNewsItems(html)
      IN  StopReason(Retained(allItems, lastUrl) \o items, lastUrl,
                     getNextPageUrl(html), oneWeekAgo)
            = StopReason(allItems \o items, lastUrl,
                         getNextPageUrl(html), oneWeekAgo)

\* the run under way has no cursor: none was stored, the stored one is empty,
\* or the override kept it from being read
NoCursor == pc \in {"loop", "filter", "done"} /\ ~Truthy(lastUrl)

\* C33: in a run with no cursor (cold start or override) the crawl fetches at
\* most 40 pages: while the loop goes on every fetched page has added at least
\* one item and fewer than 40 items are accumulated.
C33_AtMostFortyPages ==
  NoCursor =>
    /\ fetches <= MAX_ITEMS
    /\ Len(fetched) = fetches
    /\ pc = "loop" =>
         /\ Len(allItems) >= fetches
         /\ Len(allItems) < MAX_ITEMS
         /\ \A i \in 1..Len(fetched) : Len(parseNewsItems(site[fetched[i]])) >= 1

\* a run under the override fetched 40 pages of one item each and stopped at
\* the cap
C33_Witness ==
  /\ NoCursor
  /\ Done
  /\ IGNORE_LAST /\ entry = "url"
  /\ fetches = MAX_ITEMS
  /\ stopReason = "cap"
  /\ Len(crawled) = MAX_ITEMS

\* a finished warm run whose cursor was not among the accumulated items
WarmUnmatched == Done /\ Truthy(lastUrl) /\ ~SomeLink(crawled, lastUrl)

\* three pages of 15 items none of which has the cursor as link: nothing is
\* cut, the first 40 are left and the cursor becomes the link of the first
C34_Example ==
  LET page == [i \in 1..15 |-> [link |-> <<"b">>, pubDate |-> <<"9">>]]
      all  == page \o page \o page
      out  == CapItems(CursorCut(all, <<"a">>))
  IN  /\ out = SubSeq(all, 1, 40)
      /\ LastAfter(out, <<"a">>) = <<"b">>
      /\ LastAfterUrl(out, <<"a">>) = <<"b">> \/ IGNORE_LAST

\* C34 as stated: in a warm run whose cursor link is never encountered the
\* output is the first min(40, n) of the n accumulated items, the feed is
\* written, and the persisted cursor is replaced by the first item's link.
C34_Original ==
  WarmUnmatched =>
    /\ allItems = FirstForty(crawled)
    /\ feed.exists /\ feed.items = generateRss(allItems)
    /\ Len(allItems) > 0 /\ LAST = allItems[1].link

\* C34 amended: the feed is written and the cursor replaced when at least one
\* item was accumulated; a run that accumulated none writes nothing.
C34_UnmatchedCursor ==
  WarmUnmatched =>
    /\ allItems = FirstForty(crawled)
    /\ Len(crawled) > 0 =>
         /\ feed.exists /\ feed.items = generateRss(allItems)
         /\ LAST = allItems[1].link
    /\ Len(crawled) = 0 => (feed = pre.feed /\ LAST = pre.LAST)
  /\ C34_Example

\* the cursor was on neither of the two pages fetched: all their items are in
\* the feed and the cursor moved to the link of the first
C34_Witness ==
  /\ WarmUnmatched
  /\ Len(fetched) = 2
  /\ Len(crawled) >= 3
  /\ allItems = crawled
  /\ Len(feed.items) = Len(crawled)
  /\ LAST = crawled[1].link
  /\ LAST # pre.LAST

\* a write of the feed (its directory or the file) failed in the run
FeedWriteFailed == pc = "failed" /\ error \in {"mkdir", "feed", "feedwrite"}

\* the feed file holds what the run under way produced
FeedOfRun == feed.exists /\ feed.items = generateRss(allItems) /\ Len(allItems) > 0

\* C35: within a run the cursor is written only after the feed file has been
\* written: a cursor file that differs from what the run found implies the
\* feed of this run is on disk, and when creating the feed directory or writing
\* the feed file fails the persisted cursor is as the run found it.
C35_CursorAfterFeed ==
  /\ (run > 0 /\ (LAST # pre.LAST \/ FETCHED_AT # pre.FETCHED_AT)) =>
       (pc \in {"done", "failed"} /\ FeedOfRun)
  /\ FeedWriteFailed =>
       /\ LAST = pre.LAST
       /\ FETCHED_AT = pre.FETCHED_AT
       /\ feed = pre.feed

\* the write of the feed file failed in a second run of a medium that had
\* items to emit: the cursor is the one the first run left
C35_Witness ==
  /\ FeedWriteFailed
  /\ entry = "medium"
  /\ error = "feed"
  /\ run = 2
  /\ Len(allItems) > 0
  /\ LAST = pre.LAST /\ LAST # NULL
  /\ allItems[1].link # LAST

\* C36: LAST and FETCHED_AT change together: after any run of a medium,
\* including one in which a write fails, either both were updated by that run
\* or neither was.
C36_CursorRecordAtomic ==
  (entry = "medium" /\ pc \in {"done", "failed"}) =>
    \/ (LAST = pre.LAST /\ FETCHED_AT = pre.FETCHED_AT)
    \/ (Len(allItems) > 0 /\ LAST = allItems[1].link /\ FETCHED_AT = now)

\* the part of C36 that holds: a run that ends without a failed write has
\* updated both or neither
C36_AtomicWithoutFailure ==
  (entry = "medium" /\ Done) =>
    \/ (LAST = pre.LAST /\ FETCHED_AT = pre.FETCHED_AT)
    \/ (Len(allItems) > 0 /\ LAST = allItems[1].link /\ FETCHED_AT = now)

\* the cursor of the run under way is the empty string
EmptyCursor == pc \in {"loop", "filter", "done"} /\ lastUrl = <<>>

\* an empty LAST file and one of white space only are read as the empty string
C37_Example ==
  /\ MediumLast(<<>>) = <<>>
  /\ MediumLast(<<" ", "\n">>) = <<>>
  /\ IGNORE_LAST \/ (readLastUrl(<<>>) = <<>> /\ readLastUrl(<<" ", "\n">>) = <<>>)

\* C37: a stored cursor that is the empty string behaves exactly like no
\* cursor: the crawl never stops for cursor-reached, no cursor truncation is
\* applied, the 40-item stop applies, and for the items of any run the stop
\* decision and the cut are those of a null cursor.
C37_EmptyCursorIsNoCursor ==
  /\ C37_Example
  /\ EmptyCursor =>
       /\ stopReason # "cursor"
       /\ pc = "loop" => Len(allItems) < MAX_ITEMS
       /\ Done => allItems = FirstForty(crawled)
  /\ pc \in {"loop", "filter", "done"} =>
       /\ \A n \in 0..NumPages :
            StopReason(allItems, <<>>, n, oneWeekAgo)
              = StopReason(allItems, NULL, n, oneWeekAgo)
       /\ CursorCut(crawled, <<>>) = CursorCut(crawled, NULL)

\* a run read the empty cursor a run before it had stored, accumulated items
\* whose link is the empty string, stopped at 40 items and emitted them
C37_Witness ==
  /\ EmptyCursor
  /\ Done
  /\ pre.LAST = <<>>
  /\ stopReason = "cap"
  /\ SomeLink(crawled, <<>>)
  /\ allItems[1].link = <<>>
  /\ Len(allItems) = MAX_ITEMS

\* C38: the feed file written by a non-empty run contains exactly that run's
\* surviving items, one entry for each in the same order: the file is replaced
\* as a whole and no item of the feed written before is carried over.
C38_FeedReplaced ==
  FeedWritten =>
    /\ feed.exists
    /\ Len(feed.items) = Len(allItems)
    /\ \A k \in 1..Len(feed.items) :
         /\ feed.items[k].link = allItems[k].link
         /\ feed.items[k].pubDate = formatRssDate(allItems[k].pubDate)

\* a second non-empty run wrote a feed shorter than the one it found, and an
\* item of the earlier feed is no longer in the file
C38_Witness ==
  /\ FeedWritten
  /\ run = 2
  /\ pre.feed.exists
  /\ Len(feed.items) < Len(pre.feed.items)
  /\ \E k \in 1..Len(pre.feed.items) :
       \A j \in 1..Len(feed.items) : feed.items[j] # pre.feed.items[k]

====
